---------------------------- MODULE Spec2Model ----------------------------
(***************************************************************************)
(* A model of the video post-processing pipeline of                        *)
(* src/video_post_processor.py (class VideoPostProcessor): stage 1 removes *)
(* the first scene of every clip, stage 2 aligns every clip with its       *)
(* narration, stage 3 joins the aligned segments; and of three operations  *)
(* around it: VideoGenerator.generate_video, the generate_page_audio       *)
(* request handler and Config.load_config.                                 *)
(*                                                                         *)
(* Nine specifications share the variables below:                          *)
(*   Spec      - one process() run over the clip, narration and scratch    *)
(*               folders, one action per loop iteration / stage;           *)
(*   SpecTrim  - repeated calls of trim_first_scene on one output path;    *)
(*   SpecTempo - get_atempo_filter applied to a bounded set of speeds;     *)
(*   SpecAlign - the arithmetic of merge_with_audio over bounded durations;*)
(*   SpecConcat - one call of concatenate_videos on a bounded segment list;*)
(*   SpecTempoLoop - the loops of get_atempo_filter, one step per stage;   *)
(*   SpecGen   - one generate_video call, one step per attempt/download;   *)
(*   SpecAudio - one generate_page_audio request;                          *)
(*   SpecConfig - the configuration file edited and loaded again.          *)
(*                                                                         *)
(* Durations are integers in tenths of a second.  Python floats are        *)
(* modelled as decimal fixed point with six fractional digits (Micro), the *)
(* precision the code itself uses when it prints a tempo stage.            *)
(***************************************************************************)
EXTENDS Integers, Sequences, FiniteSets, TLC

VARIABLES
    \* ---- process() (Spec) ----
    videoFolder,     \* names of the clips in self.video_folder
    audioFolder,     \* names of the narrations in self.audio_folder
    trimmedFolder,   \* self.trimmed_folder: file name -> content
    mergedFolder,    \* self.merged_folder: segment path -> segment
    listFile,        \* output_folder/file_list.txt: the manifest, if present
    tmpOutput,       \* output_folder/final_merged.mp4: the joined segments
    finalOutput,     \* the file at self.final_output_path, likewise
    force,           \* process(force_trim=...)
    cleanup,         \* process(cleanup=...), from the point where it is read
    finalPath,       \* self.final_output_path, likewise
    pc,              \* position inside process()
    todo,            \* rest of the list the running loop iterates over
    idx,             \* enumerate() index of the stage 2 loop
    trimmed_videos,  \* result list of trim_all_videos
    merged_segments, \* result list of merge_all_with_audio
    result,          \* what process() returned
    log,             \* external tool calls <<tool, file, ok>>, in order
    \* ---- single-function specifications ----
    fpc,             \* "idle" in Spec, else the position of the function spec
    fin,             \* the function's inputs
    fout             \* the function's last result

vars == <<videoFolder, audioFolder, trimmedFolder, mergedFolder, listFile,
          tmpOutput, finalOutput, force, cleanup, finalPath, pc, todo, idx,
          trimmed_videos, merged_segments, result, log, fpc, fin, fout>>

procVars == <<videoFolder, audioFolder, trimmedFolder, mergedFolder, listFile,
              tmpOutput, finalOutput, force, cleanup, finalPath, pc, todo,
              idx, trimmed_videos, merged_segments, result, log>>

\* Python's None where a path or a status is expected.
None == "None"

(***************************************************************************)
(* File names.  A name is a record [pre, num, ext]: the text before the    *)
(* digits, the run of digits, and the suffix: page_001.mp4 is              *)
(* [pre |-> "page_", num |-> <<0,0,1>>, ext |-> ".mp4"].                   *)
(***************************************************************************)
Name(p, n, e) == [pre |-> p, num |-> n, ext |-> e]

valid_video_ext == {".mp4", ".mov", ".avi", ".mkv", ".webm"}
valid_audio_ext == {".wav", ".mp3", ".m4a", ".aac"}

\* Path.stem: the name without its suffix.
Stem(f) == <<f.pre, f.num>>

\* Path.suffix
Suffix(f) == f.ext

\* The files the two input folders may hold.
ClipNames ==
    { Name("page_", <<0, 0, 1>>, ".mp4"),
      Name("page_", <<0, 0, 2>>, ".mp4"),
      Name("page_", <<0, 0, 1, 0>>, ".mp4") }

NarrationNames ==
    { Name("page_", <<0, 0, 1>>, ".wav"),
      Name("page_", <<0, 0, 2>>, ".wav"),
      Name("page_", <<0, 0, 1, 0>>, ".wav"),
      Name("page_", <<0, 0, 1>>, ".mp3") }

(***************************************************************************)
(* natsort.natsorted (default algorithm): the string is split into text    *)
(* and unsigned-integer chunks, and the chunk lists are compared; a digit  *)
(* run compares by its value.  For [pre, num, ext] the key is              *)
(* <<pre, value(num), ext>>.                                               *)
(***************************************************************************)
RECURSIVE DigitsValue(_)
DigitsValue(ds) ==
    IF ds = <<>> THEN 0
    ELSE 10 * DigitsValue(SubSeq(ds, 1, Len(ds) - 1)) + ds[Len(ds)]

\* Code-point order of the text chunks that occur.
TextRank(s) ==
    CASE s = ".aac" -> 1 [] s = ".avi" -> 2 [] s = ".m4a" -> 3
      [] s = ".mkv" -> 4 [] s = ".mov" -> 5 [] s = ".mp3" -> 6
      [] s = ".mp4" -> 7 [] s = ".wav" -> 8 [] s = ".webm" -> 9
      [] s = "cover" -> 10 [] s = "page_" -> 11

\* Lexicographic order on sequences of integers, a proper prefix first.
RECURSIVE SeqLess(_, _)
SeqLess(a, b) ==
    IF a = <<>> THEN b # <<>>
    ELSE IF b = <<>> THEN FALSE
    ELSE IF Head(a) # Head(b) THEN Head(a) < Head(b)
    ELSE SeqLess(Tail(a), Tail(b))

NatKey(f) == <<TextRank(f.pre), DigitsValue(f.num), TextRank(f.ext)>>

\* Raw string order, for contrast: the digits compare character by character.
LexLess(f, g) ==
    IF f.pre # g.pre THEN TextRank(f.pre) < TextRank(g.pre)
    ELSE IF f.num # g.num THEN SeqLess(f.num, g.num)
    ELSE TextRank(f.ext) < TextRank(g.ext)

NatLess(f, g) == SeqLess(NatKey(f), NatKey(g))

\* Raw string order: what sorted() would give.
RECURSIVE LexSorted(_)
LexSorted(S) ==
    IF S = {} THEN <<>>
    ELSE LET m == CHOOSE x \in S : \A y \in S : ~LexLess(y, x)
         IN  <<m>> \o LexSorted(S \ {m})

\* natsort.natsorted over the files of one folder.
RECURSIVE natsorted(_)
natsorted(S) ==
    IF S = {} THEN <<>>
    ELSE LET m == CHOOSE x \in S : \A y \in S : ~NatLess(y, x)
         IN  <<m>> \o natsorted(S \ {m})

(***************************************************************************)
(* Media files.  A video file's content is a record                        *)
(*   [src: the clip it was made from, gen: "cur" | "old" | "partial",      *)
(*    ss: where it starts in the clip, dur: its duration]                  *)
(* so that two files are byte-identical exactly when the records are equal.*)
(* gen "old" is a file an earlier run left in the scratch folder, gen      *)
(* "partial" what a failed cut may leave behind.                           *)
(***************************************************************************)
Content(n, g, s, d) == [src |-> n, gen |-> g, ss |-> s, dur |-> d]

\* The content of a path at which there is no file.
NoFile == Content(Name("", <<>>, ""), "none", 0, 0)

\* get_duration's None (the probe failed), as a number no duration equals.
NoDur == 0 - 1

\* ---- bounds of the single-function specifications ----
MaxDur == 4      \* clip durations 1..MaxDur (tenths of a second) in SpecTrim
MaxCalls == 2    \* calls of trim_first_scene on one output path in SpecTrim

\* scene_manager.get_scene_list(): a list of (start, end) pairs; empty when
\* no cut was detected (e = 0), else the first scene ends at e.
SceneList(e, d) ==
    IF e = 0 THEN <<>>
    ELSE IF e < d THEN << <<0, e>>, <<e, d>> >>
    ELSE << <<0, e>> >>

(***************************************************************************)
(* find_scenes: [] when the file does not exist or the detector raises,    *)
(* else the detector's scene list.                                         *)
(***************************************************************************)
find_scenes(exists, detectorOK, detected) ==
    IF ~exists THEN [scenes |-> <<>>, tools |-> <<>>]
    ELSE IF ~detectorOK
    THEN [scenes |-> <<>>, tools |-> << <<"detect", FALSE>> >>]
    ELSE [scenes |-> detected, tools |-> << <<"detect", detected # <<>> >> >>]

(***************************************************************************)
(* get_duration: float(ffprobe output), or None on any exception.  A file  *)
(* that is missing or truncated has no readable duration.                  *)
(***************************************************************************)
get_duration(content, probeOK) ==
    IF content = NoFile \/ ~probeOK THEN NoDur
    ELSE IF content.gen = "partial" THEN NoDur
    ELSE content.dur

(***************************************************************************)
(* trim_first_scene(input_path, output_path, force).                       *)
(*   input      content of input_path                                      *)
(*   old        content of output_path before the call, or NoFile          *)
(*   frc        force                                                      *)
(*   detOK, detected   outcome of the scene detector                       *)
(*   probeOK    whether ffprobe succeeds                                   *)
(*   cutOK      whether ffmpeg exits 0                                     *)
(*   wrote      whether a failing ffmpeg had already opened (and so        *)
(*              overwritten) the output file                               *)
(* The result is [ret, raised, out, tools]: the return value, whether the   *)
(* call ended with an exception instead of returning (ret is then FALSE),  *)
(* the content of output_path after the call, and the external tools       *)
(* invoked, each as <<tool, ok>> with ok telling whether it gave the       *)
(* caller a result (a non-empty scene list, a duration, exit code 0).      *)
(* input = NoFile is an input_path at which there is no file.              *)
(***************************************************************************)
TrimSkipsIgnoringOutput(old, frc) == FALSE

\* if output_path.exists() and not force: return True
TrimSkips(old, frc) == old # NoFile /\ ~frc

PassThroughStrict(first_scene_end_time, video_duration) ==
    first_scene_end_time > video_duration

\* if first_scene_end_time >= video_duration: copy instead of cutting
PassThrough(first_scene_end_time, video_duration) ==
    first_scene_end_time >= video_duration

CutOutputKeepsFirstScene(input, first_scene_end_time, video_duration) ==
    Content(input.src, "cur", input.ss, first_scene_end_time)

\* ffmpeg -i input -ss first_scene_end_time -c copy output: what remains
CutOutput(input, first_scene_end_time, video_duration) ==
    Content(input.src, "cur", input.ss + first_scene_end_time,
            video_duration - first_scene_end_time)

FormatNeverRaises(video_duration) == FALSE

\* f"{video_duration:.2f}" (line 180) raises TypeError when get_duration
\* returned None.
FormatRaises(video_duration) == video_duration = NoDur

copy2Nothing(src, dst) == dst

\* shutil.copy2(src, dst): the content of dst afterwards
copy2(src, dst) == src

\* shutil.copy2 (line 172, outside the try block) opens the source first:
\* FileNotFoundError when there is no such file, the destination untouched.
CopyRaises(input) == input = NoFile

trim_first_scene(input, old, frc, detOK, detected, probeOK, cutOK, wrote) ==
    IF TrimSkips(old, frc)
    THEN [ret |-> TRUE, raised |-> FALSE, out |-> old, tools |-> <<>>]
    ELSE
      LET fs == find_scenes(input # NoFile, detOK, detected)
          scenes == fs.scenes
      IN
      IF scenes = <<>>
      THEN IF CopyRaises(input)
           THEN [ret |-> FALSE, raised |-> TRUE, out |-> old,
                 tools |-> fs.tools]
           ELSE [ret |-> TRUE, raised |-> FALSE, out |-> copy2(input, old),
                 tools |-> fs.tools]
      ELSE
        LET first_scene_end_time == scenes[1][2]
            video_duration == get_duration(input, probeOK)
            t2 == Append(fs.tools, <<"probe", video_duration # NoDur>>)
        IN
        IF FormatRaises(video_duration)
        THEN \* caught by "except Exception": return False
             [ret |-> FALSE, raised |-> FALSE, out |-> old, tools |-> t2]
        ELSE IF PassThrough(first_scene_end_time, video_duration)
        THEN [ret |-> TRUE, raised |-> FALSE, out |-> copy2(input, old),
              tools |-> t2]
        ELSE IF cutOK
        THEN [ret |-> TRUE, raised |-> FALSE,
              out |-> CutOutput(input, first_scene_end_time, video_duration),
              tools |-> Append(t2, <<"cut", TRUE>>)]
        ELSE [ret |-> FALSE, raised |-> FALSE,
              out |-> IF wrote
                      THEN Content(input.src, "partial",
                                   input.ss + first_scene_end_time, 0)
                      ELSE old,
              tools |-> Append(t2, <<"cut", FALSE>>)]

(***************************************************************************)
(* SpecTrim: trim_first_scene is called up to MaxCalls times on the same   *)
(* input and output path, with every outcome of the external tools.        *)
(*   fin  = the last call's inputs: the input file, the detector's scene   *)
(*          list for it, force, the output file before the call (old), and *)
(*          how the tools behaved (detOK, probe, cutOK)                    *)
(*   fout = its result: [ret, raised, out, tools] and the number of calls  *)
(*          so far                                                         *)
(* The input is a clip of 1..MaxDur tenths of a second, or a path at which *)
(* there is no file.                                                       *)
(***************************************************************************)
TrimClip == Name("page_", <<0, 0, 1>>, ".mp4")

TrimInit ==
    /\ fpc = "trim"
    /\ \E d \in 1..MaxDur, e \in 0..(MaxDur + 1),
          old \in {NoFile, Content(TrimClip, "old", 0, 1)} :
         /\ \/ fin = [input |-> Content(TrimClip, "cur", 0, d),
                      detected |-> SceneList(e, d),
                      frc |-> FALSE, old |-> old, detOK |-> TRUE,
                      probe |-> NoDur, cutOK |-> TRUE]
            \/ fin = [input |-> NoFile, detected |-> <<>>,
                      frc |-> FALSE, old |-> old, detOK |-> TRUE,
                      probe |-> NoDur, cutOK |-> TRUE]
         /\ fout = [ret |-> FALSE, raised |-> FALSE, out |-> old,
                    tools |-> <<>>, calls |-> 0]
    /\ videoFolder = {} /\ audioFolder = {}
    /\ trimmedFolder = <<>> /\ mergedFolder = {}
    /\ listFile = <<>> /\ tmpOutput = <<>> /\ finalOutput = <<>>
    /\ force = FALSE /\ cleanup = FALSE /\ finalPath = None
    /\ pc = "idle" /\ todo = <<>> /\ idx = 0
    /\ trimmed_videos = <<>> /\ merged_segments = <<>>
    /\ result = None /\ log = <<>>

TrimCall ==
    /\ fpc = "trim"
    /\ fout.calls < MaxCalls
    /\ \E frc \in BOOLEAN, detOK \in BOOLEAN, probeOK \in BOOLEAN,
          cutOK \in BOOLEAN, wrote \in BOOLEAN :
         LET r == trim_first_scene(fin.input, fout.out, frc, detOK,
                                   fin.detected, probeOK, cutOK, wrote)
         IN /\ fin' = [fin EXCEPT !.frc = frc, !.old = fout.out,
                                  !.detOK = detOK, !.cutOK = cutOK,
                                  !.probe = get_duration(fin.input, probeOK)]
            /\ fout' = [ret |-> r.ret, raised |-> r.raised, out |-> r.out,
                        tools |-> r.tools, calls |-> fout.calls + 1]
    /\ UNCHANGED <<fpc, procVars>>

TrimNext == TrimCall

SpecTrim == TrimInit /\ [][TrimNext]_vars

(***************************************************************************)
(* Claims about trim_first_scene, checked under SpecTrim.                  *)
(***************************************************************************)
\* The last call ran past the "already exists" guard.
TrimPerformed == fout.calls > 0 /\ ~(fin.old # NoFile /\ ~fin.frc)

\* What find_scenes returned in the last call.
TrimScenesFound ==
    IF fin.input # NoFile /\ fin.detOK THEN fin.detected ELSE <<>>

IsIn(x, seq) == \E i \in 1..Len(seq) : seq[i] = x

\* The call invoked the tool.
Invoked(tool, tools) == \E i \in 1..Len(tools) : tools[i][1] = tool

(* C3: for every clip (a file that exists) for which find_scenes returns   *)
(* an empty list and whose trim is actually performed (no output yet, or   *)
(* force), trim_first_scene invokes no cut tool, leaves an output          *)
(* byte-identical to the input, and returns True.                          *)
C3_EmptyScenesCopy ==
    (TrimPerformed /\ fin.input # NoFile /\ TrimScenesFound = <<>>)
        => /\ ~Invoked("cut", fout.tools)
           /\ ~fout.raised
           /\ fout.out = fin.input
           /\ fout.ret = TRUE

\* A forced call over an existing, different output, no scene detected.
C3_Witness ==
    /\ TrimPerformed /\ fin.input # NoFile /\ TrimScenesFound = <<>>
    /\ fin.frc /\ fin.old # NoFile /\ fin.old # fin.input
    /\ fout.out = fin.input

(* C4: when the first detected scene ends at or after the duration the     *)
(* probe reports, trim_first_scene issues no cut and leaves a copy of the  *)
(* input; a cut is issued only when first-scene-end < duration, and a cut  *)
(* that succeeds leaves an output with remaining duration > 0.             *)
C4_FullLengthSceneCopy ==
    TrimPerformed =>
      /\ (TrimScenesFound # <<>> /\ fin.probe # NoDur
            /\ TrimScenesFound[1][2] >= fin.probe)
           => /\ ~Invoked("cut", fout.tools)
              /\ fout.out = fin.input
              /\ fout.ret = TRUE
      /\ Invoked("cut", fout.tools)
           => /\ TrimScenesFound # <<>>
              /\ fin.probe # NoDur
              /\ TrimScenesFound[1][2] < fin.probe
      /\ (Invoked("cut", fout.tools) /\ fout.ret = TRUE)
           => fout.out.dur > 0

\* The first scene ends exactly at the clip's end: copied, not cut.
C4_Witness ==
    /\ TrimPerformed /\ TrimScenesFound # <<>>
    /\ fin.probe # NoDur /\ TrimScenesFound[1][2] = fin.probe
    /\ fout.out = fin.input /\ fout.ret = TRUE

(* C5: when the output path exists and force is false, trim_first_scene    *)
(* returns True, runs neither the scene detector nor the probe nor the cut *)
(* tool, and leaves the output file as it was; this holds for every call,  *)
(* however many came before.                                               *)
C5_ExistingOutputSkipped ==
    (fout.calls > 0 /\ fin.old # NoFile /\ ~fin.frc)
        => /\ fout.ret = TRUE
           /\ fout.tools = <<>>
           /\ fout.out = fin.old

\* A second call that finds the output of the first and skips.
C5_Witness ==
    /\ fout.calls = 2 /\ fin.old # NoFile /\ ~fin.frc
    /\ fin.old.gen = "cur" /\ fin.old.ss > 0
    /\ fout.out = fin.old /\ fout.ret = TRUE

(* C19 as stated: when the detector throws or input_path does not exist,   *)
(* find_scenes returns an empty list without raising, and a trim that is   *)
(* actually performed then ends as "no trim": no exception, no cut, an     *)
(* output that is a copy of the input, and True returned.                  *)
C19_DetectionFailureCopies ==
    (TrimPerformed /\ (fin.input = NoFile \/ ~fin.detOK))
        => /\ find_scenes(fin.input # NoFile, fin.detOK, fin.detected).scenes
                = <<>>
           /\ ~Invoked("cut", fout.tools)
           /\ ~fout.raised
           /\ fout.ret = TRUE
           /\ fout.out # NoFile /\ fout.out = fin.input

(***************************************************************************)
(* get_atempo_filter.  A speed is the exact ratio num/den of two positive  *)
(* integers (dividing a float by 2.0 or 0.5 is exact, so the loops lose    *)
(* nothing).  A stage of the returned chain is the number printed after    *)
(* "atempo=", in millionths: "atempo=2.0" is 2000000, and the last stage   *)
(* is the speed as "{speed:.6f}" prints it, rounded to six decimals.       *)
(***************************************************************************)
Micro == 1000000       \* the unit of a stage: six decimals (":.6f")
StageTwo == 2000000    \* "atempo=2.0"
StageHalf == 500000    \* "atempo=0.5"
StageOne == 1000000    \* "atempo=1.0"

\* ---- bounds of SpecTempo ----
MaxNum == 24     \* speeds num/den with num in 1..MaxNum
MaxDen == 12     \* and den in 1..MaxDen

Abs(x) == IF x < 0 THEN 0 - x ELSE x

Format6Truncated(num, den) == (num * Micro) \div den

\* f"{speed:.6f}": num/den rounded to the nearest millionth, ties to even.
Format6(num, den) ==
    LET q == (num * Micro) \div den
        r == (num * Micro) % den
    IN  IF 2 * r > den THEN q + 1
        ELSE IF 2 * r < den THEN q
        ELSE IF q % 2 = 0 THEN q ELSE q + 1

NearUnityExactOnly(num, den) == num = den

\* if abs(speed - 1.0) < 0.001
NearUnity(num, den) == Abs(num - den) * 1000 < den

RECURSIVE AtempoLoops(_, _, _)
AtempoLoops(num, den, filters) ==
    IF num > 2 * den                     \* while speed > 2.0
    THEN AtempoLoops(num, 2 * den, Append(filters, StageTwo))
    ELSE IF 2 * num < den                \* while speed < 0.5
    THEN AtempoLoops(2 * num, den, Append(filters, StageHalf))
    ELSE Append(filters, Format6(num, den))

get_atempo_filter(num, den) ==
    IF NearUnity(num, den) THEN <<StageOne>>
    ELSE AtempoLoops(num, den, <<>>)

RECURSIVE Gcd(_, _)
Gcd(a, b) == IF b = 0 THEN a ELSE Gcd(b, a % b)

\* The product of the stages of a chain as a fraction [n, d] in lowest
\* terms, each stage being s / Micro.
RECURSIVE ChainProduct(_)
ChainProduct(chain) ==
    IF chain = <<>> THEN [n |-> 1, d |-> 1]
    ELSE LET rest == ChainProduct(Tail(chain))
             g1 == Gcd(Head(chain), Micro)
             sn == Head(chain) \div g1
             sd == Micro \div g1
             ga == Gcd(sn, rest.d)
             gb == Gcd(rest.n, sd)
         IN  [n |-> (sn \div ga) * (rest.n \div gb),
              d |-> (sd \div gb) * (rest.d \div ga)]

\* Speeds on both sides of the 0.001 threshold around 1.0:
\* 1.0005, 0.9995 (inside) and 1.002, 0.998 (outside).
UnitySpeeds ==
    { <<2001, 2000>>, <<1999, 2000>>, <<1002, 1000>>, <<998, 1000>> }

TempoInit ==
    /\ fpc = "tempo"
    /\ \E speed \in ((1..MaxNum) \X (1..MaxDen)) \cup UnitySpeeds :
         fin = [num |-> speed[1], den |-> speed[2]]
    /\ fout = [chain |-> <<>>]
    /\ videoFolder = {} /\ audioFolder = {}
    /\ trimmedFolder = <<>> /\ mergedFolder = {}
    /\ listFile = <<>> /\ tmpOutput = <<>> /\ finalOutput = <<>>
    /\ force = FALSE /\ cleanup = FALSE /\ finalPath = None
    /\ pc = "idle" /\ todo = <<>> /\ idx = 0
    /\ trimmed_videos = <<>> /\ merged_segments = <<>>
    /\ result = None /\ log = <<>>

TempoApply ==
    /\ fpc = "tempo"
    /\ fpc' = "tempoDone"
    /\ fout' = [chain |-> get_atempo_filter(fin.num, fin.den)]
    /\ UNCHANGED <<fin, procVars>>

TempoNext == TempoApply

SpecTempo == TempoInit /\ [][TempoNext]_vars

(***************************************************************************)
(* Claims about get_atempo_filter, checked under SpecTempo.                *)
(***************************************************************************)
\* The speed lies outside [0.5, 2.0].
TempoOutOfRange == fin.num > 2 * fin.den \/ 2 * fin.num < fin.den

\* Every stage lies in [0.5, 2.0]; all but the last are 2.0 (a speed above
\* 2.0) or all but the last are 0.5 (a speed below 0.5).
TempoChainShape ==
    LET c == fout.chain
    IN  /\ Len(c) >= 2
        /\ \A i \in 1..Len(c) : StageHalf <= c[i] /\ c[i] <= StageTwo
        /\ \/ \A i \in 1..(Len(c) - 1) : c[i] = StageTwo
           \/ \A i \in 1..(Len(c) - 1) : c[i] = StageHalf

\* |product - f| * Micro, as the fraction [n, d]:
\*   |P.n / P.d - num / den| = |P.n * den - num * P.d| / (P.d * den).
TempoError ==
    LET P == ChainProduct(fout.chain)
    IN  [n |-> Abs(P.n * fin.den - fin.num * P.d), d |-> P.d * fin.den]

\* |product - f| <= 1e-6
TempoAbsClose == TempoError.n <= 2000 /\ TempoError.n * Micro <= TempoError.d

\* |product - f| <= 1e-6 * f
TempoRelClose ==
    /\ TempoError.n <= 2000
    /\ TempoError.n * Micro * fin.den <= TempoError.d * fin.num

(* C6 as stated: for every positive speed f outside [0.5, 2.0] the chain   *)
(* consists of stages in [0.5, 2.0] (repeated 0.5 or 2.0 stages and one    *)
(* final stage) and the product of the stages as emitted equals f within   *)
(* 1e-6.                                                                   *)
C6_AsStated ==
    (fpc = "tempoDone" /\ TempoOutOfRange)
        => (TempoChainShape /\ TempoAbsClose)

(* C6 amended: the same, with the product within 1e-6 relative to f, that  *)
(* is |product - f| <= 1e-6 * f; and within 1e-6 absolutely whenever       *)
(* f <= 4.                                                                 *)
C6_ChainProduct ==
    (fpc = "tempoDone" /\ TempoOutOfRange)
        => /\ TempoChainShape
           /\ TempoRelClose
           /\ (fin.num <= 4 * fin.den) => TempoAbsClose

\* f = 13/3: two 2.0 stages and 1.083333, product 4.333332.
C6_Witness ==
    /\ fpc = "tempoDone"
    /\ fin = [num |-> 13, den |-> 3]
    /\ fout.chain = <<StageTwo, StageTwo, 1083333>>
    /\ ~TempoAbsClose

(* C22: for speed 1.0, and for every speed with |speed - 1.0| < 0.001,     *)
(* get_atempo_filter returns the chain of the single stage "atempo=1.0".   *)
C22_UnityTempo ==
    (fpc = "tempoDone" /\ Abs(fin.num - fin.den) * 1000 < fin.den)
        => fout.chain = <<StageOne>>

\* Speed 1.0005: within the threshold, not equal to 1.0.
C22_Witness ==
    /\ fpc = "tempoDone" /\ fin.num = 2001 /\ fin.den = 2000
    /\ fout.chain = <<StageOne>>

(***************************************************************************)
(* merge_with_audio.  pts_factor and audio_speed_factor are kept as exact  *)
(* fractions [n, d] of the probed durations (an IEEE double quotient is    *)
(* within 2^-53 of them, far below every tolerance used here).  Gains are  *)
(* in hundredths.                                                          *)
(***************************************************************************)
video_volume == 5      \* 0.05, the default of __init__
audio_volume == 400    \* 4.0, the default of __init__

\* ---- bound of SpecAlign ----
MaxAlignDur == 6  \* probed durations 0..MaxAlignDur (tenths of a second)

NoCmd == [pts |-> [n |-> 0, d |-> 1], speed |-> [n |-> 0, d |-> 1],
          audio |-> <<>>, mix |-> "none"]

FalsyNoneOnly(dur) == dur = NoDur

\* "not dur": None and 0.0 are both falsy
Falsy(dur) == dur = NoDur \/ dur = 0

PtsFactorInverted(dur_audio, dur_video) == [n |-> dur_video, d |-> dur_audio]

\* pts_factor = dur_audio / dur_video
PtsFactor(dur_audio, dur_video) == [n |-> dur_audio, d |-> dur_video]

\* audio_speed_factor = 1.0 / pts_factor
AudioSpeedFactor(pts_factor) == [n |-> pts_factor.d, d |-> pts_factor.n]

AudioGraphAlwaysMixed(has_orig_audio, atempo_chain) ==
    [audio |-> << [input |-> "0:a", atempo |-> atempo_chain,
                   volume |-> video_volume],
                  [input |-> "1:a", atempo |-> <<>>,
                   volume |-> audio_volume] >>,
     mix |-> "amix-longest"]

\* The audio part of filter_complex: the inputs used, each with its tempo
\* chain and volume, and how they are combined into [a_out].
AudioGraph(has_orig_audio, atempo_chain) ==
    IF has_orig_audio
    THEN [audio |-> << [input |-> "0:a", atempo |-> atempo_chain,
                        volume |-> video_volume],
                       [input |-> "1:a", atempo |-> <<>>,
                        volume |-> audio_volume] >>,
          mix |-> "amix-longest"]
    ELSE [audio |-> << [input |-> "1:a", atempo |-> <<>>,
                        volume |-> audio_volume] >>,
          mix |-> "none"]

(* merge_with_audio(video_path, audio_path, output_path).                  *)
(*   dur_audio, dur_video   what get_duration returned for the two files   *)
(*   has_orig_audio         what has_audio_stream returned                 *)
(*   encodeOK               whether ffmpeg exits 0                         *)
(* The result is [ret, tools, cmd]: the return value, the tools invoked    *)
(* (as <<tool, ok>>) and the filter graph of the ffmpeg command (NoCmd     *)
(* when none was run).                                                     *)
merge_with_audio(dur_audio, dur_video, has_orig_audio, encodeOK) ==
    IF Falsy(dur_audio) \/ Falsy(dur_video)
    THEN [ret |-> FALSE,
          tools |-> << <<"probe.audio", dur_audio # NoDur>>,
                       <<"probe.video", dur_video # NoDur>> >>,
          cmd |-> NoCmd]
    ELSE
      LET pts_factor == PtsFactor(dur_audio, dur_video)
          audio_speed_factor == AudioSpeedFactor(pts_factor)
          atempo_chain == get_atempo_filter(audio_speed_factor.n,
                                            audio_speed_factor.d)
          g == AudioGraph(has_orig_audio, atempo_chain)
      IN  [ret |-> encodeOK,
           tools |-> << <<"probe.audio", TRUE>>, <<"probe.video", TRUE>>,
                        <<"hasaudio", has_orig_audio>>,
                        <<"encode", encodeOK>> >>,
           cmd |-> [pts |-> pts_factor, speed |-> audio_speed_factor,
                    audio |-> g.audio, mix |-> g.mix]]

AlignInit ==
    /\ fpc = "align"
    /\ \E da \in {NoDur} \cup (0..MaxAlignDur),
          dv \in {NoDur} \cup (0..MaxAlignDur), ha \in BOOLEAN :
         fin = [dur_audio |-> da, dur_video |-> dv, has_orig_audio |-> ha,
                encodeOK |-> TRUE]
    /\ fout = [ret |-> FALSE, tools |-> <<>>, cmd |-> NoCmd]
    /\ videoFolder = {} /\ audioFolder = {}
    /\ trimmedFolder = <<>> /\ mergedFolder = {}
    /\ listFile = <<>> /\ tmpOutput = <<>> /\ finalOutput = <<>>
    /\ force = FALSE /\ cleanup = FALSE /\ finalPath = None
    /\ pc = "idle" /\ todo = <<>> /\ idx = 0
    /\ trimmed_videos = <<>> /\ merged_segments = <<>>
    /\ result = None /\ log = <<>>

AlignApply ==
    /\ fpc = "align"
    /\ fpc' = "alignDone"
    /\ \E encodeOK \in BOOLEAN :
         /\ fin' = [fin EXCEPT !.encodeOK = encodeOK]
         /\ fout' = merge_with_audio(fin.dur_audio, fin.dur_video,
                                     fin.has_orig_audio, encodeOK)
    /\ UNCHANGED procVars

AlignNext == AlignApply

SpecAlign == AlignInit /\ [][AlignNext]_vars

(***************************************************************************)
(* Claims about merge_with_audio, checked under SpecAlign.                 *)
(***************************************************************************)
(* C7: for every pair with positive probed durations Dv and Da, the ffmpeg *)
(* command of merge_with_audio carries pts_factor = Da / Dv, so that       *)
(* |pts_factor * Dv - Da| <= 0.05 s, and the tempo handed to               *)
(* get_atempo_filter for the clip's own audio is the reciprocal:          *)
(* audio_speed_factor * pts_factor = 1, the chain on input 0:a being       *)
(* get_atempo_filter(audio_speed_factor).                                  *)
C7_PtsFactor ==
    (fpc = "alignDone" /\ fin.dur_audio > 0 /\ fin.dur_video > 0)
        => LET c == fout.cmd
           IN  /\ Invoked("encode", fout.tools)
               /\ c.pts.d > 0
               \* |pts * Dv - Da| <= 0.05 s = 1/2 tenth
               /\ 2 * Abs(c.pts.n * fin.dur_video - fin.dur_audio * c.pts.d)
                     <= c.pts.d
               /\ c.speed.n * c.pts.n = c.speed.d * c.pts.d
               /\ fin.has_orig_audio
                    => /\ c.audio[1].input = "0:a"
                       /\ c.audio[1].atempo
                            = get_atempo_filter(fin.dur_video, fin.dur_audio)

\* A 2.0 s clip against a 5.0 s narration: pts 2.5, tempo 0.4 = 0.5 * 0.8.
C7_Witness ==
    /\ fpc = "alignDone" /\ fin.dur_audio = 5 /\ fin.dur_video = 2
    /\ fin.has_orig_audio /\ fout.ret
    /\ fout.cmd.pts = [n |-> 5, d |-> 2]
    /\ fout.cmd.audio[1].atempo = <<StageHalf, 800000>>

(* C17: when has_audio_stream reports no audio stream for the clip (the     *)
(* durations being readable), merge_with_audio fails only if the encoder   *)
(* does, and the command it runs takes its audio from the narration alone, *)
(* scaled by audio_volume: input 0:a, a tempo chain, video_volume and the  *)
(* mixer do not occur in it.                                               *)
C17_NoAudioStream ==
    (fpc = "alignDone" /\ ~fin.has_orig_audio
       /\ fin.dur_audio > 0 /\ fin.dur_video > 0)
        => LET c == fout.cmd
           IN  /\ Invoked("encode", fout.tools)
               /\ fout.ret = fin.encodeOK
               /\ Len(c.audio) = 1
               /\ c.audio[1].input = "1:a"
               /\ c.audio[1].volume = audio_volume
               /\ \A i \in 1..Len(c.audio) :
                     /\ c.audio[i].input # "0:a"
                     /\ c.audio[i].atempo = <<>>
                     /\ c.audio[i].volume # video_volume
               /\ c.mix = "none"

\* A silent 2.0 s clip aligned with a 4.0 s narration, the encode succeeding.
C17_Witness ==
    /\ fpc = "alignDone" /\ ~fin.has_orig_audio
    /\ fin.dur_audio = 4 /\ fin.dur_video = 2
    /\ fout.ret /\ Len(fout.cmd.audio) = 1
    /\ fout.cmd.pts = [n |-> 4, d |-> 2]

(***************************************************************************)
(* SpecTempoLoop: merge_with_audio up to the return of get_atempo_filter,  *)
(* one step per iteration of its two while loops.                          *)
(*   fin  = [dur_audio, dur_video], what get_duration returned             *)
(*   fout = [num, den, filters]: speed = num/den and the filters list      *)
(*   fpc  = "call"       merge_with_audio entered                          *)
(*          "rejected"   returned False at the duration check              *)
(*          "while.high" at "while speed > 2.0"                            *)
(*          "while.low"  at "while speed < 0.5"                            *)
(*          "returned"   get_atempo_filter has returned                    *)
(* The program runs on as long as it has not returned: weak fairness of    *)
(* the next-step action.                                                   *)
(***************************************************************************)
MaxStages == 4   \* cap on the iterations of the while loops

TempoLoopInit ==
    /\ fpc = "call"
    /\ \E da \in {NoDur} \cup (0..MaxAlignDur),
          dv \in {NoDur} \cup (0..MaxAlignDur) :
         fin = [dur_audio |-> da, dur_video |-> dv]
    /\ fout = [num |-> 0, den |-> 0, filters |-> <<>>]
    /\ videoFolder = {} /\ audioFolder = {}
    /\ trimmedFolder = <<>> /\ mergedFolder = {}
    /\ listFile = <<>> /\ tmpOutput = <<>> /\ finalOutput = <<>>
    /\ force = FALSE /\ cleanup = FALSE /\ finalPath = None
    /\ pc = "idle" /\ todo = <<>> /\ idx = 0
    /\ trimmed_videos = <<>> /\ merged_segments = <<>>
    /\ result = None /\ log = <<>>

\* The duration check of merge_with_audio, the two quotients, and the
\* first test of get_atempo_filter.
TempoLoopEnter ==
    /\ fpc = "call"
    /\ IF Falsy(fin.dur_audio) \/ Falsy(fin.dur_video)
       THEN /\ fpc' = "rejected"
            /\ UNCHANGED fout
       ELSE LET speed == AudioSpeedFactor(PtsFactor(fin.dur_audio,
                                                    fin.dur_video))
            IN  IF NearUnity(speed.n, speed.d)
                THEN /\ fpc' = "returned"
                     /\ fout' = [num |-> speed.n, den |-> speed.d,
                                 filters |-> <<StageOne>>]
                ELSE /\ fpc' = "while.high"
                     /\ fout' = [num |-> speed.n, den |-> speed.d,
                                 filters |-> <<>>]
    /\ UNCHANGED <<fin, procVars>>

\* while speed > 2.0: filters.append("atempo=2.0"); speed /= 2.0
TempoLoopHigh ==
    /\ fpc = "while.high"
    /\ IF fout.num > 2 * fout.den
       THEN /\ Len(fout.filters) < MaxStages
            /\ fout' = [fout EXCEPT !.den = 2 * fout.den,
                                    !.filters = Append(@, StageTwo)]
            /\ UNCHANGED fpc
       ELSE /\ fpc' = "while.low"
            /\ UNCHANGED fout
    /\ UNCHANGED <<fin, procVars>>

\* while speed < 0.5: filters.append("atempo=0.5"); speed /= 0.5
\* and, after the loop, filters.append(f"atempo={speed:.6f}")
TempoLoopLow ==
    /\ fpc = "while.low"
    /\ IF 2 * fout.num < fout.den
       THEN /\ Len(fout.filters) < MaxStages
            /\ fout' = [fout EXCEPT !.num = 2 * fout.num,
                                    !.filters = Append(@, StageHalf)]
            /\ UNCHANGED fpc
       ELSE /\ fpc' = "returned"
            /\ fout' = [fout EXCEPT
                          !.filters = Append(@, Format6(fout.num, fout.den))]
    /\ UNCHANGED <<fin, procVars>>

TempoLoopNext ==
    \/ TempoLoopEnter
    \/ TempoLoopHigh
    \/ TempoLoopLow

SpecTempoLoop ==
    TempoLoopInit /\ [][TempoLoopNext]_vars /\ WF_vars(TempoLoopNext)

(* C26: every call of merge_with_audio either returns at the duration      *)
(* check or reaches get_atempo_filter with a positive speed, and           *)
(* get_atempo_filter then returns after finitely many loop iterations      *)
(* (with the chain the function computes for that speed).                  *)
C26_TempoTerminates ==
    /\ [](fpc \in {"while.high", "while.low", "returned"}
            => /\ fin.dur_audio > 0 /\ fin.dur_video > 0
               /\ fout.num > 0 /\ fout.den > 0)
    /\ [](fpc = "returned"
            => fout.filters = get_atempo_filter(fin.dur_video, fin.dur_audio))
    /\ <>(fpc \in {"rejected", "returned"})

\* A 0.1 s narration on a 0.6 s clip: speed 6 = 2.0 * 2.0 * 1.5.
C26_Witness ==
    /\ fpc = "returned"
    /\ fin.dur_audio = 1 /\ fin.dur_video = 6
    /\ fout.filters = <<StageTwo, StageTwo, 1500000>>

(***************************************************************************)
(* process(): the three stages over the folders.                           *)
(*                                                                         *)
(* The media behind the names (tenths of a second):                        *)
(*   page_001.mp4   3.0 s, first scene ends at 1.0 s                       *)
(*   page_002.mp4   2.0 s, no scene change                                 *)
(*   page_0010.mp4  2.0 s, one scene that runs to the end                  *)
(*   page_001.wav 4.0 s, page_002.wav 1.0 s, page_0010.wav 5.0 s,          *)
(*   page_001.mp3 0.5 s                                                    *)
(* Only page_001.mp4 carries an audio stream.  Every external tool may     *)
(* fail at every invocation.                                               *)
(*                                                                         *)
(* process() reads its cleanup parameter, and concatenate_videos reads     *)
(* self.final_output_path, only at the end of a run; the model draws each  *)
(* value at the first action that depends on it (every action that ends    *)
(* the run draws cleanup), so the earlier states are not carried once per  *)
(* value.  force is read by stage 1 and is part of the initial state.      *)
(***************************************************************************)
Page001 == <<0, 0, 1>>
Page002 == <<0, 0, 2>>
Page0010 == <<0, 0, 1, 0>>

ClipDur(f) ==
    CASE f.num = Page001 -> 30 [] f.num = Page002 -> 20 [] OTHER -> 20

\* End of the first detected scene, 0 when the detector finds no cut.
ClipFirstSceneEnd(f) ==
    CASE f.num = Page001 -> 10 [] f.num = Page002 -> 0 [] OTHER -> 20

NarrationDur(f) ==
    CASE f.ext = ".mp3" -> 5
      [] f.num = Page001 -> 40 [] f.num = Page002 -> 10 [] OTHER -> 50

ClipHasAudio(f) == f.num = Page001

\* The clip file itself.
Original(f) == Content(f, "cur", 0, ClipDur(f))

\* A trimmed file an earlier run left in the scratch folder.
Stale(f) == Content(f, "old", 0, 20)

\* ---- bounds of Spec ----
MaxStale == 1    \* files in the trimmed folder when process() starts
MaxFaults == 2   \* failing ffprobe / ffmpeg invocations in one run

\* A file of the output folder holding a list: absent, or present with data.
Absent == [exists |-> FALSE, data |-> <<>>]
Holding(data) == [exists |-> TRUE, data |-> data]

\* The path merged_folder / f"{i:03d}_{base_name}.mp4"
SegmentPath(i, base_name) == [i |-> i, stem |-> base_name]

Init ==
    /\ fpc = "idle" /\ fin = <<>> /\ fout = <<>>
    /\ videoFolder \in SUBSET ClipNames
    /\ audioFolder \in SUBSET NarrationNames
    /\ \E stale \in SUBSET ClipNames :
         /\ Cardinality(stale) <= MaxStale
         /\ trimmedFolder =
              [f \in ClipNames |-> IF f \in stale THEN Stale(f) ELSE NoFile]
    /\ mergedFolder = {}
    /\ listFile = Absent /\ tmpOutput = Absent /\ finalOutput = Absent
    /\ force \in BOOLEAN /\ cleanup = FALSE /\ finalPath = None
    /\ pc = "start" /\ todo = <<>> /\ idx = 0
    /\ trimmed_videos = <<>> /\ merged_segments = <<>>
    /\ result = None /\ log = <<>>

\* self.video_folder.glob(f"*{ext}") for ext in valid_video_ext
GlobVideos == {f \in videoFolder : Suffix(f) \in valid_video_ext}

\* self.audio_folder.glob(f"*{ext}") for ext in valid_audio_ext
GlobAudios == {f \in audioFolder : Suffix(f) \in valid_audio_ext}

\* The tool invocations of one call, each with the file it was made for.
Tagged(tools, f) ==
    [i \in 1..Len(tools) |-> <<tools[i][1], f, tools[i][2]>>]

\* The ffprobe and ffmpeg invocations of a log that failed.
RECURSIVE Faults(_)
Faults(l) ==
    IF l = <<>> THEN 0
    ELSE Faults(Tail(l))
           + (IF Head(l)[1] \in {"probe", "probe.audio", "probe.video",
                                 "cut", "encode", "join"} /\ ~Head(l)[3]
              THEN 1 ELSE 0)

\* output_folder / "file_list.txt"
ListFileName == Name("file_list", <<>>, ".txt")

\* The final_output_path given to __init__: none, a file outside the output
\* folder, or a file inside the merged folder of the output folder.
OutsidePath == "final.mp4"
InMergedPath == "output_folder/merged/final.mp4"
FinalPaths == {None, OutsidePath, InMergedPath}

\* The path lies under self.merged_folder, which shutil.rmtree removes with
\* everything in it.
UnderMergedFolder(path) == path = InMergedPath

\* process() returns value.
Return(value) == pc' = "done" /\ result' = value /\ cleanup' \in BOOLEAN

NextTodoRetry(remaining, ok) == IF ok THEN Tail(remaining) ELSE remaining

\* "for video_path in video_files" / "for i, audio_path in enumerate(...)":
\* the loop goes on to the next file whatever the call returned.
NextTodo(remaining, ok) == Tail(remaining)

StageFinishedEarly(remaining) == TRUE

\* A stage function returns, and process() goes on, when its loop has been
\* through every file.
StageFinished(remaining) == remaining = <<>>

NoneProducedNever(list) == FALSE

\* "if not trimmed_videos" / "if not merged_segments" in process()
NoneProduced(list) == list = <<>>

ShouldCleanupAlways(clean, final_video) == TRUE

\* if cleanup and final_video:
ShouldCleanup(clean, final_video) == clean /\ final_video # None

(* process() up to the loop of trim_all_videos: list and sort the clips;   *)
(* with no clip trim_all_videos returns [] and process() returns None.     *)
TrimAllStart ==
    /\ pc = "start"
    /\ LET video_files == natsorted(GlobVideos)
       IN  IF video_files = <<>>
           THEN /\ Return(None)
                /\ UNCHANGED todo
           ELSE /\ pc' = "trim" /\ todo' = video_files
                /\ UNCHANGED <<result, cleanup>>
    /\ UNCHANGED <<videoFolder, audioFolder, trimmedFolder, mergedFolder,
                   listFile, tmpOutput, finalOutput, force,
                   finalPath, idx, trimmed_videos, merged_segments, log,
                   fpc, fin, fout>>

(* One iteration of the loop of trim_all_videos. *)
TrimStep ==
    /\ pc = "trim" /\ todo # <<>>
    /\ LET video_path == Head(todo)
       IN  \E detOK \in BOOLEAN, probeOK \in BOOLEAN, cutOK \in BOOLEAN,
              wrote \in BOOLEAN :
             LET r == trim_first_scene(
                        Original(video_path), trimmedFolder[video_path],
                        force, detOK,
                        SceneList(ClipFirstSceneEnd(video_path),
                                  ClipDur(video_path)),
                        probeOK, cutOK, wrote)
             IN  /\ trimmedFolder' =
                      [trimmedFolder EXCEPT ![video_path] = r.out]
                 /\ trimmed_videos' =
                      IF r.ret THEN Append(trimmed_videos, video_path)
                      ELSE trimmed_videos
                 /\ log' = log \o Tagged(r.tools, video_path)
                 /\ Faults(log') <= MaxFaults
                 /\ todo' = NextTodo(todo, r.ret)
    /\ UNCHANGED <<videoFolder, audioFolder, mergedFolder, listFile,
                   tmpOutput, finalOutput, force, cleanup, finalPath, pc,
                   idx, merged_segments, result, fpc, fin, fout>>

(* trim_all_videos returns; process() stops when nothing was trimmed, else *)
(* merge_all_with_audio lists and sorts the narrations (and returns [],    *)
(* which ends process(), when there is none).                              *)
TrimAllDone ==
    /\ pc = "trim" /\ StageFinished(todo)
    /\ IF NoneProduced(trimmed_videos)
       THEN /\ Return(None)
            /\ UNCHANGED <<todo, idx>>
       ELSE LET audio_files == natsorted(GlobAudios)
            IN  IF audio_files = <<>>
                THEN /\ Return(None)
                     /\ UNCHANGED <<todo, idx>>
                ELSE /\ pc' = "merge" /\ todo' = audio_files /\ idx' = 0
                     /\ UNCHANGED <<result, cleanup>>
    /\ UNCHANGED <<videoFolder, audioFolder, trimmedFolder, mergedFolder,
                   listFile, tmpOutput, finalOutput, force,
                   finalPath, trimmed_videos, merged_segments, log,
                   fpc, fin, fout>>

\* has_audio_stream: whether ffprobe lists an audio stream; False when it
\* fails.
has_audio_stream(content, probeOK) ==
    probeOK /\ content # NoFile /\ ClipHasAudio(content.src)

VideoMapAnyStem(base_name) ==
    {f \in ClipNames : /\ trimmedFolder[f] # NoFile
                       /\ Suffix(f) \in valid_video_ext}

\* video_map: the files of the trimmed folder with a video suffix, by stem.
VideoMap(base_name) ==
    {f \in ClipNames : /\ trimmedFolder[f] # NoFile
                       /\ Suffix(f) \in valid_video_ext
                       /\ Stem(f) = base_name}

AppendAlways(segments, seg, ok) == Append(segments, seg)

\* if self.merge_with_audio(...): merged_segments.append(output_path)
AppendIfOk(segments, seg, ok) ==
    IF ok THEN Append(segments, seg) ELSE segments

\* The aligned segment ffmpeg writes for one pair.
Segment(path, video_path, audio_path, video, cmd) ==
    [path |-> path, clip |-> video_path, video |-> video,
     narration |-> audio_path, cmd |-> cmd,
     dur |-> (cmd.pts.n * video.dur) \div cmd.pts.d]

(* One iteration of the loop of merge_all_with_audio. *)
MergeStep ==
    /\ pc = "merge" /\ todo # <<>>
    /\ LET audio_path == Head(todo)
           base_name == Stem(audio_path)
       IN  IF VideoMap(base_name) = {}
           THEN /\ todo' = Tail(todo)
                /\ UNCHANGED <<mergedFolder, merged_segments, log>>
           ELSE \E video_path \in VideoMap(base_name),
                   probeA \in BOOLEAN, probeV \in BOOLEAN,
                   probeS \in BOOLEAN, encodeOK \in BOOLEAN :
                  LET video == trimmedFolder[video_path]
                      output_path == SegmentPath(idx, base_name)
                      r == merge_with_audio(
                             IF probeA THEN NarrationDur(audio_path)
                             ELSE NoDur,
                             get_duration(video, probeV),
                             has_audio_stream(video, probeS), encodeOK)
                      seg == Segment(output_path, video_path, audio_path,
                                     video, r.cmd)
                  IN  /\ mergedFolder' =
                           IF r.ret
                           THEN {m \in mergedFolder : m.path # output_path}
                                  \cup {seg}
                           ELSE mergedFolder
                      /\ merged_segments' =
                           AppendIfOk(merged_segments, seg, r.ret)
                      /\ log' = log \o Tagged(r.tools, audio_path)
                      /\ Faults(log') <= MaxFaults
                      /\ todo' = NextTodo(todo, r.ret)
    /\ idx' = idx + 1
    /\ UNCHANGED <<videoFolder, audioFolder, trimmedFolder, listFile,
                   tmpOutput, finalOutput, force, cleanup, finalPath, pc,
                   trimmed_videos, result, fpc, fin, fout>>

(* merge_all_with_audio returns; process() stops when no pair was merged. *)
MergeAllDone ==
    /\ pc = "merge" /\ StageFinished(todo)
    /\ IF NoneProduced(merged_segments)
       THEN Return(None)
       ELSE pc' = "concat" /\ UNCHANGED <<result, cleanup>>
    /\ UNCHANGED <<videoFolder, audioFolder, trimmedFolder, mergedFolder,
                   listFile, tmpOutput, finalOutput, force,
                   finalPath, todo, idx, trimmed_videos, merged_segments,
                   log, fpc, fin, fout>>

JoinResultScratchOnly(joinOK, final_given) ==
    IF ~joinOK THEN None ELSE "final_merged.mp4"

JoinResultIgnoringExit(joinOK, final_given) ==
    IF final_given THEN "final_output_path" ELSE "final_merged.mp4"

\* What concatenate_videos returns once the join has run: None when ffmpeg
\* exited non-zero, else self.final_output_path when one was given, else
\* tmp_output_path.
JoinResult(joinOK, final_given) ==
    IF ~joinOK THEN None
    ELSE IF final_given THEN "final_output_path" ELSE "final_merged.mp4"

(* concatenate_videos(segments).                                           *)
(*   final_given   whether self.final_output_path is set                   *)
(*   joinOK        whether the ffmpeg concat exits 0                       *)
(*   wrote         whether a failing ffmpeg had already opened (and so     *)
(*                 overwritten) final_merged.mp4                           *)
(*   list0, tmp0, final0   file_list.txt, final_merged.mp4 and the file at *)
(*                 final_output_path before the call                       *)
(* The result is [ret, list, tmp, final, tools]: the return value, the     *)
(* three files after the call and the tools invoked.  A file               *)
(* final_merged.mp4 that holds no segment is what an interrupted join      *)
(* leaves.                                                                 *)
EmptySegmentsNever(segments) == FALSE

\* if not segments: return None
EmptySegments(segments) == segments = <<>>

concatenate_videos(segments, final_given, joinOK, wrote, list0, tmp0, final0) ==
    IF EmptySegments(segments)
    THEN [ret |-> None, list |-> list0, tmp |-> tmp0, final |-> final0,
          tools |-> <<>>]
    ELSE
      LET list1 == Holding([i \in 1..Len(segments) |-> segments[i].path])
          tmp1 == IF joinOK THEN Holding(segments)
                  ELSE IF wrote THEN Holding(<<>>) ELSE tmp0
      IN  [ret |-> JoinResult(joinOK, final_given),
           list |-> list1,
           tmp |-> tmp1,
           final |-> IF joinOK /\ final_given THEN copy2(tmp1, final0)
                     ELSE final0,
           tools |-> << <<"join", joinOK>> >>]

(* Stage 3 of process(): final_video = concatenate_videos(merged_segments) *)
Concatenate ==
    /\ pc = "concat"
    /\ finalPath' \in FinalPaths
    /\ \E joinOK \in BOOLEAN, wrote \in BOOLEAN :
         LET r == concatenate_videos(merged_segments, finalPath' # None,
                                     joinOK, wrote, listFile, tmpOutput,
                                     finalOutput)
         IN  /\ listFile' = r.list
             /\ tmpOutput' = r.tmp
             /\ finalOutput' = r.final
             /\ result' = r.ret
             /\ log' = log \o Tagged(r.tools, ListFileName)
             /\ Faults(log') <= MaxFaults
    /\ pc' = "cleanup"
    /\ UNCHANGED <<videoFolder, audioFolder, trimmedFolder, mergedFolder,
                   force, cleanup, todo, idx, trimmed_videos,
                   merged_segments, fpc, fin, fout>>

(* The end of process(): remove the scratch files when cleanup is set and  *)
(* a final video was produced, then return final_video.                    *)
CleanupAndReturn ==
    /\ pc = "cleanup"
    /\ cleanup' \in BOOLEAN
    /\ IF ShouldCleanup(cleanup', result)
       THEN /\ trimmedFolder' = [f \in ClipNames |-> NoFile]
            /\ mergedFolder' = {}
            /\ listFile' = Absent
            /\ tmpOutput' = IF finalPath # None THEN Absent ELSE tmpOutput
            /\ finalOutput' = IF UnderMergedFolder(finalPath) THEN Absent
                              ELSE finalOutput
       ELSE UNCHANGED <<trimmedFolder, mergedFolder, listFile, tmpOutput,
                        finalOutput>>
    /\ pc' = "done"
    /\ UNCHANGED <<videoFolder, audioFolder, force,
                   finalPath, todo, idx, trimmed_videos, merged_segments,
                   result, log, fpc, fin, fout>>

Next ==
    \/ TrimAllStart
    \/ TrimStep
    \/ TrimAllDone
    \/ MergeStep
    \/ MergeAllDone
    \/ Concatenate
    \/ CleanupAndReturn

Spec == Init /\ [][Next]_vars

(***************************************************************************)
(* SpecConcat: one call of concatenate_videos on a list of up to           *)
(* MaxSegments aligned segments, the three files it writes being absent or *)
(* left by an earlier run, with every outcome of the join.                 *)
(*   fin  = the call's inputs: segments, list0, tmp0, final0 and, once     *)
(*          called, final_given, joinOK, wrote                             *)
(*   fout = its result [ret, list, tmp, final, tools]                      *)
(***************************************************************************)
MaxSegments == 2   \* length of the list handed to concatenate_videos

\* The segment merge_all_with_audio produces for clip c and narration a as
\* the i-th narration.
AlignedSegment(i, c, a) ==
    Segment(SegmentPath(i, Stem(a)), c, a, Original(c),
            merge_with_audio(NarrationDur(a), ClipDur(c), ClipHasAudio(c),
                             TRUE).cmd)

SegmentPool ==
    { AlignedSegment(0, Name("page_", Page001, ".mp4"),
                     Name("page_", Page001, ".wav")),
      AlignedSegment(1, Name("page_", Page002, ".mp4"),
                     Name("page_", Page002, ".wav")) }

\* A segment of an earlier run, as found in files that run left behind.
EarlierSegment ==
    AlignedSegment(0, Name("page_", Page0010, ".mp4"),
                   Name("page_", Page0010, ".wav"))

ConcatInit ==
    /\ fpc = "concat"
    /\ \E n \in 0..MaxSegments :
         \E segments \in [1..n -> SegmentPool],
            list0 \in {Absent, Holding(<<EarlierSegment.path>>)},
            tmp0 \in {Absent, Holding(<<EarlierSegment>>)},
            final0 \in {Absent, Holding(<<EarlierSegment>>)} :
           /\ fin = [segments |-> segments, list0 |-> list0, tmp0 |-> tmp0,
                     final0 |-> final0, final_given |-> FALSE,
                     joinOK |-> TRUE, wrote |-> FALSE]
           /\ fout = [ret |-> None, list |-> list0, tmp |-> tmp0,
                      final |-> final0, tools |-> <<>>]
    /\ videoFolder = {} /\ audioFolder = {}
    /\ trimmedFolder = <<>> /\ mergedFolder = {}
    /\ listFile = <<>> /\ tmpOutput = <<>> /\ finalOutput = <<>>
    /\ force = FALSE /\ cleanup = FALSE /\ finalPath = None
    /\ pc = "idle" /\ todo = <<>> /\ idx = 0
    /\ trimmed_videos = <<>> /\ merged_segments = <<>>
    /\ result = None /\ log = <<>>

ConcatApply ==
    /\ fpc = "concat"
    /\ fpc' = "concatDone"
    /\ \E final_given \in BOOLEAN, joinOK \in BOOLEAN, wrote \in BOOLEAN :
         /\ fin' = [fin EXCEPT !.final_given = final_given,
                               !.joinOK = joinOK, !.wrote = wrote]
         /\ fout' = concatenate_videos(fin.segments, final_given, joinOK,
                                       wrote, fin.list0, fin.tmp0,
                                       fin.final0)
    /\ UNCHANGED procVars

ConcatNext == ConcatApply

SpecConcat == ConcatInit /\ [][ConcatNext]_vars

(***************************************************************************)
(* Claims about concatenate_videos, checked under SpecConcat.              *)
(***************************************************************************)
\* A final_merged.mp4 that an interrupted join left: a file, no segment.
Partial(file) == file.exists /\ file.data = <<>>

(* C11 as stated: when the join tool exits non-zero, concatenate_videos    *)
(* returns None, the file at the caller's final output path is as it was   *)
(* before the call, and no partial final_merged.mp4 is left in the output  *)
(* folder.                                                                 *)
C11_JoinFailureLeavesNothing ==
    (fpc = "concatDone" /\ IsIn(<<"join", FALSE>>, fout.tools))
        => /\ fout.ret = None
           /\ fout.final = fin.final0
           /\ ~Partial(fout.tmp)

(* C16: concatenate_videos called with an empty list returns None, does    *)
(* not run the join tool, and creates or changes neither the manifest nor  *)
(* final_merged.mp4 nor the file at the final output path.                 *)
C16_EmptySegmentList ==
    (fpc = "concatDone" /\ fin.segments = <<>>)
        => /\ fout.ret = None
           /\ fout.tools = <<>>
           /\ fout.list = fin.list0
           /\ fout.tmp = fin.tmp0
           /\ fout.final = fin.final0

\* The call on an empty list in an empty output folder, a final path given.
C16_Witness ==
    /\ fpc = "concatDone" /\ fin.segments = <<>> /\ fin.final_given
    /\ fin.list0 = Absent /\ fin.tmp0 = Absent /\ fin.final0 = Absent
    /\ fout.list = Absent /\ fout.tmp = Absent /\ fout.final = Absent
    /\ fout.ret = None

(* C21: when the join exits 0, concatenate_videos returns the final output *)
(* path if one was given, the joined file having been copied there, and    *)
(* otherwise returns final_merged.mp4 of the output folder, which holds    *)
(* the joined segments, the file at the final path being left alone.       *)
C21_ReturnedPath ==
    (fpc = "concatDone" /\ fin.segments # <<>> /\ fin.joinOK)
        => /\ fout.tmp = Holding(fin.segments)
           /\ IF fin.final_given
              THEN /\ fout.ret = "final_output_path"
                   /\ fout.final = fout.tmp
              ELSE /\ fout.ret = "final_merged.mp4"
                   /\ fout.final = fin.final0

\* Two segments joined and copied over an older file at the final path.
C21_Witness ==
    /\ fpc = "concatDone" /\ Len(fin.segments) = 2 /\ fin.joinOK
    /\ fin.final_given /\ fin.final0 # Absent
    /\ fout.ret = "final_output_path"
    /\ fout.final = Holding(fin.segments)

(***************************************************************************)
(* Claims about process(), checked under Spec.                             *)
(***************************************************************************)
P001 == Name("page_", Page001, ".mp4")
P002 == Name("page_", Page002, ".mp4")
P0010 == Name("page_", Page0010, ".mp4")
W001 == Name("page_", Page001, ".wav")
W002 == Name("page_", Page002, ".wav")
W0010 == Name("page_", Page0010, ".wav")

\* The video process() returned: the segments of the file at the returned
\* path, empty when it returned None.
FinalVideo ==
    IF result = "final_output_path" THEN finalOutput.data
    ELSE IF result = "final_merged.mp4" THEN tmpOutput.data
    ELSE <<>>

\* The log holds this call.
Logged(tool, f, ok) == IsIn(<<tool, f, ok>>, log)

\* The clip has no narration with the same stem.
Unmatched(c) == \A a \in audioFolder : Stem(a) # Stem(c)

(* C1: a clip of the clip folder without a narration of the same stem gets *)
(* no aligned segment, and appears neither in the list handed to the       *)
(* concatenator, nor in the manifest, nor in any joined video.             *)
C1_UnmatchedClipSkipped ==
    \A c \in videoFolder :
      Unmatched(c) =>
        /\ \A m \in mergedFolder : m.clip # c /\ m.path.stem # Stem(c)
        /\ \A i \in 1..Len(merged_segments) : merged_segments[i].clip # c
        /\ \A i \in 1..Len(listFile.data) : listFile.data[i].stem # Stem(c)
        /\ \A i \in 1..Len(tmpOutput.data) : tmpOutput.data[i].clip # c
        /\ \A i \in 1..Len(finalOutput.data) : finalOutput.data[i].clip # c

\* A run that trimmed a clip without narration and still produced a video.
C1_Witness ==
    /\ pc = "done" /\ Len(FinalVideo) >= 1
    /\ \E c \in videoFolder : Unmatched(c) /\ IsIn(c, trimmed_videos)

(* C2: the segments handed to the concatenator, the manifest and the       *)
(* joined video are in the natural-sort order of the narration file names  *)
(* (the number in the name compared by value), whatever was skipped or     *)
(* failed in between.                                                      *)
C2_NaturalOrder ==
    /\ \A i, j \in 1..Len(merged_segments) :
         i < j => \/ DigitsValue(merged_segments[i].narration.num)
                       < DigitsValue(merged_segments[j].narration.num)
                  \/ /\ merged_segments[i].narration.num
                          = merged_segments[j].narration.num
                     /\ TextRank(merged_segments[i].narration.ext)
                          < TextRank(merged_segments[j].narration.ext)
    /\ listFile.exists
         => listFile.data = [i \in 1..Len(merged_segments) |->
                               merged_segments[i].path]
    /\ (tmpOutput.exists /\ tmpOutput.data # <<>>)
         => tmpOutput.data = merged_segments

\* page_002 before page_0010 in the manifest, page_001.wav having failed.
C2_Witness ==
    /\ listFile.exists
    /\ Len(merged_segments) = 2
    /\ merged_segments[1].narration = W002
    /\ merged_segments[2].narration = W0010
    /\ Logged("encode", W001, FALSE)

\* The run of the scenario: the two clips and their two narrations, every
\* tool working, both clips actually examined by stage 1, the video going
\* to the default location or to a path outside the scratch folders.
C8_Scenario ==
    /\ pc = "done"
    /\ ~UnderMergedFolder(finalPath)
    /\ videoFolder = {P001, P002}
    /\ audioFolder = {W001, W002}
    /\ Faults(log) = 0
    /\ Logged("detect", P001, TRUE)
    /\ Logged("detect", P002, FALSE)

(* C8: with page_001.mp4 (3.0 s, scene change at 1.0 s), page_002.mp4      *)
(* (2.0 s, no scene change), page_001.wav (4.0 s) and page_002.wav (1.0 s) *)
(* process() cuts page_001 at 1.0 s (2.0 s left) and aligns it with        *)
(* pts_factor 2.0, copies page_002 untrimmed and aligns it with pts_factor *)
(* 0.5, and joins exactly these two segments, page_001 first, 5.0 s in     *)
(* all.                                                                    *)
C8_EndToEnd ==
    C8_Scenario =>
      LET v == FinalVideo
      IN  /\ result # None
          /\ Len(v) = 2
          /\ Logged("cut", P001, TRUE)
          /\ ~Logged("cut", P002, TRUE) /\ ~Logged("cut", P002, FALSE)
          /\ v[1].clip = P001 /\ v[1].narration = W001
          /\ v[1].video = Content(P001, "cur", 10, 20)
          /\ v[1].cmd.pts.n = 2 * v[1].cmd.pts.d
          /\ v[2].clip = P002 /\ v[2].narration = W002
          /\ v[2].video = Original(P002)
          /\ 2 * v[2].cmd.pts.n = v[2].cmd.pts.d
          /\ v[1].dur + v[2].dur = 50

\* The scenario's run, ended with the video at the caller's path.
C8_Witness ==
    /\ C8_Scenario
    /\ result = "final_output_path"
    /\ Len(finalOutput.data) = 2

\* A probe or the encode failed for the pair of narration a.
PairFailed(a) ==
    \/ Logged("probe.audio", a, FALSE)
    \/ Logged("probe.video", a, FALSE)
    \/ Logged("encode", a, FALSE)

\* merge_with_audio was called for narration a.
PairAttempted(a) == Logged("probe.audio", a, TRUE) \/ Logged("probe.audio", a, FALSE)

(* C9: a probe or encode failure for one pair fails only that pair: its    *)
(* segment is not in the list merge_all_with_audio returns; once stage 2   *)
(* is over every narration with a trimmed clip has had its attempt, and    *)
(* those that did not fail are in the list; and when at least one pair     *)
(* succeeded the join is run on exactly that list, its success giving the  *)
(* final video of process().                                               *)
C9_PairFailureIsolated ==
    /\ \A a \in audioFolder :
         PairFailed(a) =>
           \A i \in 1..Len(merged_segments) : merged_segments[i].narration # a
    /\ (pc \in {"concat", "cleanup"} \/ (pc = "merge" /\ todo = <<>>))
         => \A a \in GlobAudios :
              VideoMap(Stem(a)) # {}
                => /\ PairAttempted(a)
                   /\ PairFailed(a)
                        \/ \E i \in 1..Len(merged_segments) :
                             merged_segments[i].narration = a
    /\ (pc \in {"cleanup", "done"} /\ merged_segments # <<>>)
         => /\ Logged("join", ListFileName, TRUE)
                 \/ Logged("join", ListFileName, FALSE)
            /\ Logged("join", ListFileName, TRUE)
                 => /\ result # None
                    /\ (pc = "cleanup" \/ ~UnderMergedFolder(finalPath))
                         => FinalVideo = merged_segments

\* The encode of the first pair failed, the later pair is in the video.
C9_Witness ==
    /\ pc = "done" /\ result # None
    /\ Logged("encode", W001, FALSE)
    /\ \E i \in 1..Len(FinalVideo) : FinalVideo[i].narration = W002

(* C10 as stated: a clip whose cut failed in stage 1 is never aligned with *)
(* its narration in that run and never appears in a joined video, whatever *)
(* the scratch trimmed folder holds.                                       *)
C10_FailedCutExcluded ==
    \A c \in videoFolder :
      Logged("cut", c, FALSE) =>
        /\ \A a \in audioFolder :
             Stem(a) = Stem(c)
               => ~Logged("encode", a, TRUE) /\ ~Logged("encode", a, FALSE)
        /\ \A i \in 1..Len(merged_segments) : merged_segments[i].clip # c
        /\ \A i \in 1..Len(FinalVideo) : FinalVideo[i].clip # c

\* The scratch files of a run: trimmed clips, aligned segments, manifest.
ScratchEmpty ==
    /\ \A f \in ClipNames : trimmedFolder[f] = NoFile
    /\ mergedFolder = {}
    /\ ~listFile.exists

(* C12 as stated: whenever process() has returned with cleanup enabled,    *)
(* with a final video or with None after any stage, no trimmed clip, no    *)
(* aligned segment and no manifest is left in the output folder.           *)
C12_CleanupOnEveryReturn ==
    (pc = "done" /\ cleanup) => ScratchEmpty

(* C13: once process() has returned a final video, with cleanup enabled    *)
(* the trimmed folder, the merged folder and the manifest are gone, and so *)
(* is final_merged.mp4 when a final output path was given (the video is    *)
(* then at that path; without one final_merged.mp4 is the video and        *)
(* stays); with cleanup disabled the trimmed clips, the aligned segments,  *)
(* the manifest and final_merged.mp4 are all still there.                  *)
C13_CleanupAfterFinalVideo ==
    (pc = "done" /\ result # None)
        => IF cleanup
           THEN /\ ScratchEmpty
                /\ finalPath # None => ~tmpOutput.exists
                /\ finalPath = None => tmpOutput.exists
           ELSE /\ \A i \in 1..Len(trimmed_videos) :
                     trimmedFolder[trimmed_videos[i]] # NoFile
                /\ \A i \in 1..Len(merged_segments) :
                     merged_segments[i] \in mergedFolder
                /\ listFile = Holding([i \in 1..Len(merged_segments) |->
                                         merged_segments[i].path])
                /\ tmpOutput = Holding(merged_segments)

\* A run with cleanup and a final output path: the video is at that path,
\* everything else is gone.
C13_Witness ==
    /\ pc = "done" /\ cleanup /\ finalPath = OutsidePath
    /\ result = "final_output_path"
    /\ Len(finalOutput.data) = 2 /\ Len(trimmed_videos) = 2
    /\ ScratchEmpty /\ ~tmpOutput.exists

\* The entries of the log for this tool and file.
Calls(tool, f) == {i \in 1..Len(log) : log[i][1] = tool /\ log[i][2] = f}

(* C14: when the join fails, process() returns None although stages 1 and  *)
(* 2 produced their lists; the failed join is the only join of the run and *)
(* the last tool the run invokes.                                          *)
C14_JoinFailureFatal ==
    Logged("join", ListFileName, FALSE)
        => /\ pc \in {"cleanup", "done"}
           /\ result = None
           /\ trimmed_videos # <<>> /\ merged_segments # <<>>
           /\ Cardinality(Calls("join", ListFileName)) = 1
           /\ log[Len(log)] = <<"join", ListFileName, FALSE>>

\* Two clips trimmed, two pairs aligned, the join fails: None is returned.
C14_Witness ==
    /\ pc = "done" /\ result = None
    /\ Len(trimmed_videos) = 2 /\ Len(merged_segments) = 2
    /\ Logged("join", ListFileName, FALSE)

\* The stage a tool invocation belongs to.
StageOf(tool) ==
    CASE tool \in {"detect", "probe", "cut"} -> 1
      [] tool \in {"probe.audio", "probe.video", "hasaudio", "encode"} -> 2
      [] OTHER -> 3

\* trim_first_scene has returned for clip c.
TrimFinished(c) ==
    \/ IsIn(c, trimmed_videos)
    \/ Logged("probe", c, FALSE)
    \/ Logged("cut", c, FALSE)

\* Narration a has had its turn in stage 2: skipped for want of a trimmed
\* clip, or merge_with_audio called.
AlignFinished(a) == VideoMap(Stem(a)) = {} \/ PairAttempted(a)

(* C15: the tools of stage 1, 2 and 3 are invoked in that order; as soon   *)
(* as anything of stage 2 has happened every clip of the clip folder has   *)
(* had its trim attempt, and as soon as the manifest is written or the     *)
(* join is run every narration has had its alignment attempt.              *)
C15_StagesInOrder ==
    /\ \A i, j \in 1..Len(log) :
         i < j => StageOf(log[i][1]) <= StageOf(log[j][1])
    /\ (pc \in {"merge", "concat", "cleanup"}
          \/ mergedFolder # {}
          \/ \E i \in 1..Len(log) : StageOf(log[i][1]) >= 2)
         => \A c \in GlobVideos : TrimFinished(c)
    /\ (pc \in {"concat", "cleanup"}
          \/ (pc # "done" /\ listFile.exists)
          \/ (pc # "done" /\ \E i \in 1..Len(log) : StageOf(log[i][1]) = 3))
         => \A a \in GlobAudios : AlignFinished(a)

\* A run in which each stage used its tools on two files.
C15_Witness ==
    /\ pc = "done" /\ Faults(log) = 0
    /\ Logged("cut", P001, TRUE) /\ Logged("detect", P0010, TRUE)
    /\ Logged("encode", W001, TRUE) /\ Logged("encode", W0010, TRUE)
    /\ Logged("join", ListFileName, TRUE)

\* Stage 1 has been through every clip.
TrimStageOver == pc \in {"merge", "concat", "cleanup"} \/ (pc = "trim" /\ todo = <<>>)

\* Stage 2 has been through every narration.
MergeStageOver == pc \in {"concat", "cleanup"} \/ (pc = "merge" /\ todo = <<>>)

(* C18: a clip whose duration probe fails during trimming gets no cut and  *)
(* is not among the trimmed clips trim_all_videos returns; a pair whose     *)
(* narration or clip probe fails during alignment gets no encode and no    *)
(* segment in the list merge_all_with_audio returns; and each stage still  *)
(* goes through all its other files: at its end every clip has had its     *)
(* trim attempt, every narration with a trimmed clip its alignment         *)
(* attempt, and all that did not fail are in the stage's list.             *)
C18_ProbeFailureIsolated ==
    /\ \A c \in videoFolder :
         Logged("probe", c, FALSE)
           => /\ Calls("cut", c) = {}
              /\ ~IsIn(c, trimmed_videos)
    /\ \A a \in audioFolder :
         (Logged("probe.audio", a, FALSE) \/ Logged("probe.video", a, FALSE))
           => /\ Calls("encode", a) = {}
              /\ \A i \in 1..Len(merged_segments) :
                    merged_segments[i].narration # a
              /\ \A m \in mergedFolder : m.narration # a
    /\ TrimStageOver
         => \A c \in GlobVideos :
              /\ TrimFinished(c)
              /\ (~Logged("probe", c, FALSE) /\ ~Logged("cut", c, FALSE))
                   => IsIn(c, trimmed_videos)
    /\ MergeStageOver
         => \A a \in GlobAudios :
              /\ AlignFinished(a)
              /\ (VideoMap(Stem(a)) # {} /\ ~PairFailed(a))
                   => \E i \in 1..Len(merged_segments) :
                        merged_segments[i].narration = a

\* The probe fails for page_001.mp4 in stage 1 and for the pair of
\* page_002.wav in stage 2; page_0010 still makes it into the final video.
C18_Witness ==
    /\ pc = "done" /\ result # None
    /\ Logged("probe", P001, FALSE)
    /\ Logged("probe.audio", W002, FALSE) \/ Logged("probe.video", W002, FALSE)
    /\ IsIn(P0010, trimmed_videos)
    /\ \E i \in 1..Len(FinalVideo) : FinalVideo[i].narration = W0010

(* C20: in one run of process() the cut tool is invoked at most once per   *)
(* clip, the encoder at most once per narration (hence per pair), and the  *)
(* join tool at most once, whether the invocation failed or not.           *)
C20_NoRetry ==
    /\ \A c \in ClipNames : Cardinality(Calls("cut", c)) <= 1
    /\ \A a \in NarrationNames : Cardinality(Calls("encode", a)) <= 1
    /\ Cardinality(Calls("join", ListFileName)) <= 1
    /\ Cardinality({i \in 1..Len(log) : log[i][1] = "join"}) <= 1

\* A cut and an encode failed once each, and the run went on to its end.
C20_Witness ==
    /\ pc = "done" /\ result # None
    /\ Logged("cut", P001, FALSE)
    /\ \E a \in audioFolder : Logged("encode", a, FALSE)

(* C23 as stated: whenever process() has returned a path, a video file     *)
(* exists at that path, whatever final output path was given and whatever  *)
(* the cleanup flag.                                                       *)
C23_ReturnedFileExists ==
    (pc = "done" /\ result # None)
        => /\ result = "final_output_path"
                => finalOutput.exists /\ finalOutput.data # <<>>
           /\ result = "final_merged.mp4"
                => tmpOutput.exists /\ tmpOutput.data # <<>>

(* C24 as stated: every aligned segment, and every segment of the final    *)
(* video, is made from a clip that is in the clip folder and that stage 1  *)
(* of this run trimmed or passed through; in particular a file of the      *)
(* trimmed folder whose clip is no longer in the clip folder is never      *)
(* aligned or joined.                                                      *)
C24_OnlyClipsOfThisRun ==
    /\ \A m \in mergedFolder :
         m.clip \in videoFolder /\ IsIn(m.clip, trimmed_videos)
    /\ \A i \in 1..Len(FinalVideo) :
         /\ FinalVideo[i].clip \in videoFolder
         /\ IsIn(FinalVideo[i].clip, trimmed_videos)

(* C25 as stated: no two segments of the final video are made from the     *)
(* same clip, and two different narration files never get the same         *)
(* aligned-segment path, whatever the file names in the two folders.       *)
C25_OneSegmentPerClip ==
    /\ \A i, j \in 1..Len(FinalVideo) :
         i # j => FinalVideo[i].clip # FinalVideo[j].clip
    /\ \A m1, m2 \in mergedFolder :
         m1.narration # m2.narration => m1.path # m2.path
    /\ \A i, j \in 1..Len(merged_segments) :
         merged_segments[i].narration # merged_segments[j].narration
           => merged_segments[i].path # merged_segments[j].path

(* C27: process() goes on to stage 2 only with a non-empty list of trimmed *)
(* clips and to the join only with a non-empty list of aligned segments:   *)
(* a run whose stage 1 yields nothing returns None with nothing of stage 2 *)
(* or 3 done, and a run whose stage 2 yields nothing returns None with no  *)
(* manifest written and no join run.                                       *)
C27_EarlyReturns ==
    /\ pc \in {"merge", "concat", "cleanup"} => trimmed_videos # <<>>
    /\ pc \in {"concat", "cleanup"} => merged_segments # <<>>
    /\ (pc = "done" /\ trimmed_videos = <<>>)
         => /\ result = None
            /\ \A i \in 1..Len(log) : StageOf(log[i][1]) = 1
            /\ mergedFolder = {} /\ merged_segments = <<>>
            /\ ~listFile.exists /\ ~tmpOutput.exists
    /\ (pc = "done" /\ merged_segments = <<>>)
         => /\ result = None
            /\ \A i \in 1..Len(log) : StageOf(log[i][1]) <= 2
            /\ ~listFile.exists /\ ~tmpOutput.exists

\* Stage 1 fails on the only clip while an old trimmed file and its
\* narration are there for stage 2: process() returns before stage 2.
C27_Witness ==
    /\ pc = "done" /\ result = None
    /\ videoFolder = {P001} /\ W001 \in audioFolder
    /\ trimmed_videos = <<>>
    /\ trimmedFolder[P001] # NoFile
    /\ Logged("cut", P001, FALSE)

(***************************************************************************)
(* src/video_generator.py: VideoGenerator.generate_video, one step per     *)
(* generation attempt and per download attempt (SpecGen).                  *)
(*   fin  = [exists, force_regenerate, image_ok]: whether save_path        *)
(*          exists, the flag, and whether the reference image is given and *)
(*          exists                                                         *)
(*   fout = [attempt, dl, api_calls, last, after, status, success]         *)
(*          attempt    the loop variable of "for attempt in range(...)"    *)
(*          dl         the loop variable of _download_video                *)
(*          api_calls  calls of client.chat.completions.create so far      *)
(*          last       how the latest generation attempt ended             *)
(*          after      how the attempt ended that the latest "continue"    *)
(*                     followed                                            *)
(*          status, success   the returned dict, status "none" before the  *)
(*                     return                                              *)
(* An attempt ends in one of:                                              *)
(*   "rate_limit", "heavy_load", "server_error"  the API call or the       *)
(*          stream raises with "429"+"rate_limit", "400"+"heavy_load",     *)
(*          "500" in its message                                           *)
(*   "other_error"   it raises with none of these                          *)
(*   "empty"         the stream carries no content                         *)
(*   "policy"        content without URL that names a content policy       *)
(*   "no_url"        other content without URL                             *)
(*   "bare_url"      an https://...mp4 URL without the <video src=> tag:   *)
(*                   match.group(1) raises IndexError                      *)
(*   "video_tag"     <video src='...'>: the download is started            *)
(*   "download_failed"  _download_video returned False                     *)
(*   "downloaded"    _download_video returned True                         *)
(***************************************************************************)
max_retries == 10
max_download_retries == 10

ApiOutcomes ==
    {"rate_limit", "heavy_load", "server_error", "other_error", "empty",
     "policy", "no_url", "bare_url", "video_tag"}

ShouldRetryAlways(outcome) == TRUE

\* should_retry = is_rate_limit or is_heavy_load or is_server_error
\*                or is_download_failed
ShouldRetry(outcome) ==
    outcome \in {"rate_limit", "heavy_load", "server_error",
                 "download_failed"}

GenInit ==
    /\ fpc = "gen.start"
    /\ \E exists \in BOOLEAN, force_regenerate \in BOOLEAN,
          image_ok \in BOOLEAN :
         fin = [exists |-> exists, force_regenerate |-> force_regenerate,
                image_ok |-> image_ok]
    /\ fout = [attempt |-> 0, dl |-> 0, api_calls |-> 0, last |-> "none",
               after |-> "none", status |-> "none", success |-> FALSE]
    /\ videoFolder = {} /\ audioFolder = {}
    /\ trimmedFolder = <<>> /\ mergedFolder = {}
    /\ listFile = <<>> /\ tmpOutput = <<>> /\ finalOutput = <<>>
    /\ force = FALSE /\ cleanup = FALSE /\ finalPath = None
    /\ pc = "idle" /\ todo = <<>> /\ idx = 0
    /\ trimmed_videos = <<>> /\ merged_segments = <<>>
    /\ result = None /\ log = <<>>

\* return {...}: the call is over.
GenReturn(success, status, last) ==
    /\ fpc' = "gen.done"
    /\ fout' = [fout EXCEPT !.success = success, !.status = status,
                            !.last = last]

\* The except handler (175-194) and the policy branch (140-150): go on
\* with the next attempt, or return.
GenFailed(outcome, api_calls) ==
    IF outcome = "policy"
    THEN IF fout.attempt < max_retries
         THEN /\ fpc' = "gen.attempt"
              /\ fout' = [fout EXCEPT !.attempt = @ + 1, !.last = outcome,
                                      !.after = outcome,
                                      !.api_calls = api_calls, !.dl = 0]
         ELSE /\ fpc' = "gen.done"
              /\ fout' = [fout EXCEPT !.status = "blocked",
                                      !.last = outcome,
                                      !.api_calls = api_calls]
    ELSE IF ShouldRetry(outcome) /\ fout.attempt < max_retries
    THEN /\ fpc' = "gen.attempt"
         /\ fout' = [fout EXCEPT !.attempt = @ + 1, !.last = outcome,
                                 !.after = outcome,
                                 !.api_calls = api_calls, !.dl = 0]
    ELSE /\ fpc' = "gen.done"
         /\ fout' = [fout EXCEPT !.status = "failed", !.last = outcome,
                                 !.api_calls = api_calls]

\* Lines 75-90: the existence check.
GenStart ==
    /\ fpc = "gen.start"
    /\ IF fin.exists /\ ~fin.force_regenerate
       THEN GenReturn(TRUE, "exists", "none")
       ELSE fpc' = "gen.attempt" /\ UNCHANGED fout
    /\ UNCHANGED <<fin, procVars>>

\* One iteration of "for attempt in range(max_retries + 1)" up to the
\* download.
GenAttempt ==
    /\ fpc = "gen.attempt"
    /\ fout.attempt <= max_retries
    /\ IF ~fin.image_ok
       THEN GenReturn(FALSE, "failed", "no_image")
       ELSE \E outcome \in ApiOutcomes :
              IF outcome = "video_tag"
              THEN /\ fpc' = "gen.download"
                   /\ fout' = [fout EXCEPT !.api_calls = @ + 1,
                                           !.last = outcome, !.dl = 0]
              ELSE GenFailed(outcome, fout.api_calls + 1)
    /\ UNCHANGED <<fin, procVars>>

\* One iteration of the loop of _download_video, and what generate_video
\* does when _download_video returns.
GenDownload ==
    /\ fpc = "gen.download"
    /\ \E ok \in BOOLEAN :
         IF ok
         THEN GenReturn(TRUE, "completed", "downloaded")
         ELSE IF fout.dl < max_download_retries - 1
         THEN /\ fout' = [fout EXCEPT !.dl = @ + 1]
              /\ UNCHANGED fpc
         ELSE GenFailed("download_failed", fout.api_calls)
    /\ UNCHANGED <<fin, procVars>>

GenNext ==
    \/ GenStart
    \/ GenAttempt
    \/ GenDownload

SpecGen == GenInit /\ [][GenNext]_vars /\ WF_vars(GenNext)

\* The ways an attempt can end after which generate_video tries again.
Retryable ==
    {"rate_limit", "heavy_load", "server_error", "download_failed", "policy"}

(* C28: generate_video always returns a result; it makes at most           *)
(* max_retries + 1 = 11 attempts (and API calls); a further attempt is     *)
(* only ever made after a rate limit, heavy load, server error, download   *)
(* failure or content-policy block, every other failure being returned at  *)
(* once as a failure result; and when the file exists and regeneration is  *)
(* not forced it returns status "exists" without any API call.             *)
C28_GenerateVideoRetries ==
    /\ [](/\ fout.attempt <= max_retries
          /\ fout.api_calls <= max_retries + 1
          /\ fout.api_calls <= fout.attempt + 1)
    /\ []((fout.attempt > 0) <=> (fout.after \in Retryable))
    /\ [](fout.attempt = 0 => fout.after = "none")
    /\ []((fpc = "gen.attempt" /\ fout.last # "none")
            => fout.last \in Retryable)
    /\ []((fout.last \notin Retryable \cup {"none", "video_tag", "downloaded"})
            => /\ fpc = "gen.done"
               /\ ~fout.success /\ fout.status = "failed")
    /\ []((fpc = "gen.done" /\ fin.exists /\ ~fin.force_regenerate)
            => /\ fout.status = "exists" /\ fout.success
               /\ fout.api_calls = 0)
    /\ [](fpc = "gen.done"
            => /\ fout.status \in {"exists", "completed", "failed", "blocked"}
               /\ fout.success = (fout.status \in {"exists", "completed"}))
    /\ <>(fpc = "gen.done")

\* Eleven attempts, each ending in a retryable failure: the last returns.
C28_Witness ==
    /\ fpc = "gen.done" /\ fout.attempt = max_retries
    /\ fout.api_calls = max_retries + 1
    /\ fout.last = "server_error" /\ fout.status = "failed"

(***************************************************************************)
(* generate_page_audio (src/app.py): one POST request for one page and one *)
(* language.  fin is the request and what the server holds when it         *)
(* arrives, fout the page's audio status, the active task counter and the  *)
(* return statement the request left by.                                   *)
(***************************************************************************)

Langs == {"cn", "en"}

\* generation_status["pages"][page_index]["audio"]: None, a string left by
\* an older status layout, or a dict with one status per language.
AudioStatus(kind, cn, en) == [kind |-> kind, cn |-> cn, en |-> en]

\* Lines 1144-1149: None and a string are both replaced by a fresh dict.
AudioDict(audio) ==
    IF audio.kind = "dict" THEN audio ELSE AudioStatus("dict", None, None)

\* The except handler sets "failed" only when the entry is a dict (1207).
MarkFailed(audio, lang) ==
    IF audio.kind = "dict" THEN [audio EXCEPT ![lang] = "failed"] ELSE audio

\* "if not text": the request returns at line 1180.
EmptyText(text_empty) == text_empty

AudioInit ==
    /\ fpc = "audio.call"
    /\ \E story_loaded \in BOOLEAN, page_found \in BOOLEAN,
          text_empty \in BOOLEAN, lang \in Langs,
          audio \in {AudioStatus("none", None, None),
                     AudioStatus("str", None, None)}
                    \cup {AudioStatus("dict", cn, en) :
                            cn \in {None, "completed", "failed"},
                            en \in {None, "completed", "failed"}} :
         /\ fin = [story_loaded |-> story_loaded, page_found |-> page_found,
                   text_empty |-> text_empty, lang |-> lang,
                   audio |-> audio]
         /\ fout = [audio |-> audio, active |-> 0, path |-> "none"]
    /\ videoFolder = {} /\ audioFolder = {}
    /\ trimmedFolder = <<>> /\ mergedFolder = {}
    /\ listFile = <<>> /\ tmpOutput = <<>> /\ finalOutput = <<>>
    /\ force = FALSE /\ cleanup = FALSE /\ finalPath = None
    /\ pc = "idle" /\ todo = <<>> /\ idx = 0
    /\ trimmed_videos = <<>> /\ merged_segments = <<>>
    /\ result = None /\ log = <<>>

\* active_audio_tasks -= 1; return jsonify(...)
AudioReturn(audio, path) ==
    /\ fpc' = "audio.returned"
    /\ fout' = [fout EXCEPT !.audio = audio, !.active = 0, !.path = path]

\* Lines 1126-1151: count the task, check the story and the page, then
\* mark the language as generating.
AudioRequest ==
    /\ fpc = "audio.call"
    /\ IF ~fin.story_loaded THEN AudioReturn(fout.audio, "no_story")
       ELSE IF ~fin.page_found THEN AudioReturn(fout.audio, "no_page")
       ELSE /\ fpc' = "audio.sync"
            /\ fout' = [fout EXCEPT
                          !.audio = [AudioDict(@) EXCEPT
                                       ![fin.lang] = "generating"],
                          !.active = 1]
    /\ UNCHANGED <<fin, procVars>>

\* Lines 1153-1174 inside the try: reading the configuration and updating
\* the generator may raise; removing the old file may not (bare except).
AudioSync ==
    /\ fpc = "audio.sync"
    /\ \E raises \in BOOLEAN :
         IF raises
         THEN AudioReturn(MarkFailed(fout.audio, fin.lang), "exception")
         ELSE /\ fpc' = "audio.text"
              /\ UNCHANGED fout
    /\ UNCHANGED <<fin, procVars>>

\* Lines 1177-1180: text = page.get(text_key, ""); if not text: return.
AudioText ==
    /\ fpc = "audio.text"
    /\ IF EmptyText(fin.text_empty)
       THEN AudioReturn(fout.audio, "empty_text")
       ELSE /\ fpc' = "audio.generate"
            /\ UNCHANGED fout
    /\ UNCHANGED <<fin, procVars>>

\* Lines 1183-1210: the generator reports success or failure, or raises.
AudioGenerate ==
    /\ fpc = "audio.generate"
    /\ \E outcome \in {"success", "failure", "exception"} :
         CASE outcome = "success" ->
                AudioReturn([fout.audio EXCEPT ![fin.lang] = "completed"],
                            "success")
           [] outcome = "failure" ->
                AudioReturn([fout.audio EXCEPT ![fin.lang] = "failed"],
                            "failure")
           [] outcome = "exception" ->
                AudioReturn(MarkFailed(fout.audio, fin.lang), "exception")
    /\ UNCHANGED <<fin, procVars>>

AudioNext ==
    \/ AudioRequest
    \/ AudioSync
    \/ AudioText
    \/ AudioGenerate

SpecAudio == AudioInit /\ [][AudioNext]_vars

(* C29: once a page-audio request that got past the story and page checks  *)
(* has returned, the page's audio status for the requested language is     *)
(* "completed" or "failed", whichever return statement it left by.         *)
C29_AudioStatusSettled ==
    (fpc = "audio.returned" /\ fout.path \notin {"no_story", "no_page"})
        => fout.audio[fin.lang] \in {"completed", "failed"}

(***************************************************************************)
(* Config.load_config (src/config_manager.py): the configuration file is   *)
(* read, parsed and merged over the defaults.  A JSON value is a leaf or a *)
(* dict of values; fin is the file on disk at the call, fout the Config    *)
(* object (config, last_error), whether the call raised, and the file the  *)
(* call left on disk.                                                      *)
(***************************************************************************)

NoItems == [key \in {} |-> ""]

Leaf(v) == [tag |-> "leaf", v |-> v, items |-> NoItems]

Dict(items) == [tag |-> "dict", v |-> "", items |-> items]

\* What a lookup of a key that is not there gives.
Missing == [tag |-> "absent", v |-> "", items |-> NoItems]

\* Three of the sections of Config.DEFAULT_CONFIG, one nested two deep.
DEFAULT_CONFIG ==
    ("video_api" :> Dict("model" :> Leaf("sora")))
    @@ ("generation" :>
          Dict(("batch_size" :> Leaf("1"))
               @@ ("concurrency" :> Dict("video" :> Leaf("1")))))

\* The keys a JSON object in the file has: those given a value.
Object(video_api, generation, custom) ==
    LET all == ("video_api" :> video_api) @@ ("generation" :> generation)
               @@ ("custom" :> custom)
    IN  [key \in {k \in DOMAIN all : all[k].tag # "absent"} |-> all[key]]

ConcurrencyValues ==
    {Missing, Leaf("x"), Dict(NoItems), Dict("video" :> Leaf("3"))}

GenerationValues ==
    {Missing, Leaf("x")}
    \cup {Dict([key \in {k \in {"batch_size", "concurrency"} :
                           (k = "batch_size" /\ hasBatch)
                           \/ (k = "concurrency" /\ conc.tag # "absent")}
                  |-> IF key = "batch_size" THEN Leaf("2") ELSE conc]) :
            hasBatch \in BOOLEAN, conc \in ConcurrencyValues}

VideoApiValues ==
    {Missing, Leaf("x"), Dict(NoItems), Dict("model" :> Leaf("veo"))}

\* The JSON objects a user may have written to config.json.
ObjectFiles ==
    {Object(video_api, generation, custom) :
        video_api \in VideoApiValues, generation \in GenerationValues,
        custom \in {Missing, Leaf("x")}}

File(kind, obj) == [kind |-> kind, obj |-> obj]

\* config.json: not there, unreadable, empty, only white space, not JSON,
\* JSON that is not an object, or a JSON object.
Files ==
    {File(kind, NoItems) :
        kind \in {"missing", "unreadable", "empty", "blank", "invalid",
                  "array", "null"}}
    \cup {File("object", obj) : obj \in ObjectFiles}

\* _merge_config: a deep copy of default, every key of loaded written over
\* it, two dicts under the same key merged recursively.
RECURSIVE merge_config(_, _)
merge_config(default, loaded) ==
    [key \in DOMAIN default \cup DOMAIN loaded |->
        IF key \notin DOMAIN loaded THEN default[key]
        ELSE IF /\ key \in DOMAIN default
                /\ default[key].tag = "dict" /\ loaded[key].tag = "dict"
        THEN Dict(merge_config(default[key].items, loaded[key].items))
        ELSE loaded[key]]

\* The exception the try body (79-88) ends with, "none" when it returns:
\* open/read fail, the explicit raise on empty content, json.loads, and
\* loaded.items() on a value that is not a dict.
TryBody(file) ==
    CASE file.kind = "unreadable" -> "OSError"
      [] file.kind \in {"empty", "blank"} -> "JSONDecodeError"
      [] file.kind = "invalid" -> "JSONDecodeError"
      [] file.kind \in {"array", "null"} -> "AttributeError"
      [] file.kind = "object" -> "none"

HandledJsonOnly(exc) == exc = "JSONDecodeError"

\* except json.JSONDecodeError (90) and except Exception (96).
Handled(exc) == exc \in {"JSONDecodeError", "OSError", "AttributeError"}

\* err_msg of the handler that catches exc.
ErrMsg(exc) ==
    IF exc = "JSONDecodeError" THEN "JSON format error" ELSE "Load failed"

ConfigInit ==
    /\ fpc = "config.call"
    /\ \E file \in Files : fin = [file |-> file]
    /\ fout = [config |-> NoItems, last_error |-> None, raised |-> FALSE,
               file |-> File("missing", NoItems)]
    /\ videoFolder = {} /\ audioFolder = {}
    /\ trimmedFolder = <<>> /\ mergedFolder = {}
    /\ listFile = <<>> /\ tmpOutput = <<>> /\ finalOutput = <<>>
    /\ force = FALSE /\ cleanup = FALSE /\ finalPath = None
    /\ pc = "idle" /\ todo = <<>> /\ idx = 0
    /\ trimmed_videos = <<>> /\ merged_segments = <<>>
    /\ result = None /\ log = <<>>

\* reload(): self.config = self.load_config().
ConfigReload ==
    /\ fpc = "config.call"
    /\ fpc' = "config.done"
    /\ IF fin.file.kind = "missing"
       THEN \E saved \in BOOLEAN :
              fout' = [config |-> DEFAULT_CONFIG, last_error |-> None,
                       raised |-> FALSE,
                       file |-> IF saved
                                THEN File("object", DEFAULT_CONFIG)
                                ELSE fin.file]
       ELSE LET exc == TryBody(fin.file)
            IN  IF exc = "none"
                THEN fout' = [config |-> merge_config(DEFAULT_CONFIG,
                                                      fin.file.obj),
                              last_error |-> None, raised |-> FALSE,
                              file |-> fin.file]
                ELSE IF Handled(exc)
                THEN fout' = [config |-> DEFAULT_CONFIG,
                              last_error |-> ErrMsg(exc), raised |-> FALSE,
                              file |-> fin.file]
                ELSE fout' = [config |-> fout.config, last_error |-> None,
                              raised |-> TRUE, file |-> fin.file]
    /\ UNCHANGED <<fin, procVars>>

\* The user edits config.json by hand and the configuration is read again.
ConfigEdit ==
    /\ fpc = "config.done"
    /\ fpc' = "config.call"
    /\ \E file \in Files : fin' = [file |-> file]
    /\ fout' = [fout EXCEPT !.raised = FALSE]
    /\ UNCHANGED procVars

ConfigNext ==
    \/ ConfigReload
    \/ ConfigEdit

SpecConfig == ConfigInit /\ [][ConfigNext]_vars

\* Every key that occurs in the defaults or in a file.
ConfigKeys ==
    {"video_api", "generation", "custom", "model", "batch_size",
     "concurrency", "video"}

MaxDepth == 3

KeyPaths == UNION {[1..n -> ConfigKeys] : n \in 1..MaxDepth}

\* The value under a path of keys, Missing when the path leaves the dicts.
RECURSIVE Lookup(_, _)
Lookup(value, path) ==
    IF path = <<>> THEN value
    ELSE IF value.tag = "dict" /\ Head(path) \in DOMAIN value.items
    THEN Lookup(value.items[Head(path)], Tail(path))
    ELSE Missing

\* Every dict on the way to path's last key is a dict of the file too.
InFileDict(obj, path) ==
    Lookup(Dict(obj), SubSeq(path, 1, Len(path) - 1)).tag = "dict"

\* The merge as seen from the outside: a key the file gives a value that
\* is not a dict, or gives a dict where the defaults have none, has the
\* file's value; a key missing from a dict of the file has the default.
MergedOver(config, obj) ==
    \A path \in KeyPaths :
        LET l == Lookup(Dict(obj), path)
            d == Lookup(Dict(DEFAULT_CONFIG), path)
            r == Lookup(Dict(config), path)
        IN  /\ (l.tag = "leaf" \/ (l.tag = "dict" /\ d.tag # "dict"))
                => r = l
            /\ (l.tag = "absent" /\ InFileDict(obj, path)) => r = d

=============================================================================
